---- MODULE Spec2Model ----
(***************************************************************************)
(* A model of the earnings-analyzer dashboard (src/app.py) and of the key   *)
(* check script (src/test_env.py).                                         *)
(*                                                                         *)
(* Two specifications share the variables below.                           *)
(*   Spec     applies the program's functions (get_current_fiscal_period,  *)
(*            validate_financial_data, get_enhanced_financial_data, the    *)
(*            three LLM wrappers, create_modern_chart, the two display     *)
(*            functions and test_env.py) to inputs drawn from bounded sets *)
(*            while the clock advances.                                    *)
(*   SpecApp  is one Streamlit session: the script loads and validates the *)
(*            API key, and every user interaction reruns the whole script  *)
(*            against the session state.                                   *)
(*                                                                         *)
(* Python values are tagged records (PyNone / PyInt / PyStr) so that None, *)
(* 0 and "" stay distinct and truthiness is computed as Python does.       *)
(* Money is kept in whole dollars that are multiples of 4,000,000, so the  *)
(* code's  revenue / 1e6 / 4  is exact in integers.                        *)
(***************************************************************************)
EXTENDS Integers, Sequences, FiniteSets, TLC

VARIABLES
    now,        \* the wall clock, datetime.now(): [year, month, day]
    call,       \* name of the function most recently applied
    at,         \* the clock value when that call started
    args,       \* its arguments
    ret,        \* its return value
    raised,     \* TRUE iff the call ended by raising
    reqs,       \* number of requests the call sent to an external API
    openai_client,   \* what the cached get_openai_client() returns
    selected_market, \* selectbox "Market:"
    checked,         \* tickers whose checkbox comp_<ticker> is ticked
    search_market,   \* selectbox "Market Segment"
    search_term,     \* text input "Search Topic"
    search_results,  \* st.session_state.search_results
    analysis_data,   \* st.session_state.analysis_data
    event,           \* the interaction that caused the latest rerun
    netCalls,        \* requests sent to external APIs during that rerun
    llmReqs,         \* of these, the chat completions
    searchReqs,      \* of these, the completions asked for by the search
    shown,           \* <<s>> when the rerun displayed search result s
    searched,        \* history: latest result of each (market, term) search
    secrets,         \* st.secrets["OPENAI_API_KEY"], PyAbsent when it raises
    environ,         \* os.getenv('OPENAI_API_KEY') after load_dotenv()
    openai_api_key,  \* the module global the script loads on every run
    stopped          \* TRUE iff the latest run ended before line 60

fnvars == <<now, call, at, args, ret, raised, reqs>>
appvars == <<openai_client, selected_market, checked, search_market, search_term,
             search_results, analysis_data, event, netCalls, llmReqs,
             searchReqs, shown, searched, secrets, environ, openai_api_key,
             stopped>>
vars == <<fnvars, appvars>>

\* ------------------------------------------------------------------ bounds

FirstYear == 2024      \* first calendar year the clock can show
Years == 1             \* number of calendar years the clock runs through
MaxCompanies == 2      \* companies kept of each market's list
MaxErrLen == 102       \* longest exception text, in characters

LastYear == FirstYear + Years - 1

\* ------------------------------------------------------------ Python values

PyNone == [t |-> "none", i |-> 0, s |-> ""]
PyInt(n) == [t |-> "int", i |-> n, s |-> ""]
PyStr(x) == [t |-> "str", i |-> 0, s |-> x]

\* Python truthiness of None, a number or a string
Truthy(v) == \/ v.t = "int" /\ v.i # 0
             \/ v.t = "str" /\ v.s # ""

Min(a, b) == IF a <= b THEN a ELSE b

\* Python's s[:k]
Take(str, k) == SubSeq(str, 1, Min(k, Len(str)))

\* ------------------------------------------------------------------- dates

Date(y, m, d) == [year |-> y, month |-> m, day |-> d]

IsLeap(y) == (y % 4 = 0 /\ y % 100 # 0) \/ y % 400 = 0

DaysInMonth(y, m) ==
    IF m = 2 THEN (IF IsLeap(y) THEN 29 ELSE 28)
    ELSE IF m \in {4, 6, 9, 11} THEN 30 ELSE 31

\* The code reads only the month and the year of the clock; the days kept
\* are the first and the last day of every month.
Days(y, m) == {1, DaysInMonth(y, m)}

Dates == {dt \in [year : FirstYear..LastYear, month : 1..12, day : 1..31] :
              dt.day \in Days(dt.year, dt.month)}

DateLT(a, b) ==
    \/ a.year < b.year
    \/ a.year = b.year /\ a.month < b.month
    \/ a.year = b.year /\ a.month = b.month /\ a.day < b.day

DateLE(a, b) == a = b \/ DateLT(a, b)

\* the clock values a later read of datetime.now() can return
Later(d) ==
    LET after == {e \in Dates : DateLT(d, e)} IN
    {d} \cup {e \in after : \A f \in after : DateLE(e, f)}

\* ---------------------------------------------- get_current_fiscal_period

\* the function with the default branch keeping the current year
get_current_fiscal_period_this_year(current_date) ==
    IF current_date.month >= 7
    THEN [quarter |-> "Q1", year |-> current_date.year,
          end |-> Date(current_date.year, 3, 31)]
    ELSE [quarter |-> "Q4", year |-> current_date.year,
          end |-> Date(current_date.year, 12, 31)]

\* The elif branches are written out as in the source although the first
\* test shadows them.
get_current_fiscal_period(current_date) ==
    LET current_year == current_date.year IN
    IF current_date.month >= 7
    THEN [quarter |-> "Q1", year |-> current_year,
          end |-> Date(current_year, 3, 31)]
    ELSE IF current_date.month >= 10
    THEN [quarter |-> "Q2", year |-> current_year,
          end |-> Date(current_year, 6, 30)]
    ELSE IF current_date.month >= 12
    THEN [quarter |-> "Q3", year |-> current_year,
          end |-> Date(current_year, 9, 30)]
    ELSE [quarter |-> "Q4", year |-> current_year - 1,
          end |-> Date(current_year - 1, 12, 31)]


\* ------------------------------------------------ validate_financial_data

ScoreRevenue == 30
ScoreEps == 30
ScoreMarketCap == 20
ScoreCurrentYear == 20
ScorePreviousYear == 10
HighThreshold == 80
MediumThreshold == 50

\* data.get(k): None when the key is absent
Get(data, k) == IF k \in DOMAIN data THEN data[k] ELSE PyNone

\* f"{data['fiscal_year']}"
YearText(v) == IF v.t = "int" THEN ToString(v.i) ELSE v.s

\* "Check data completeness" with the market-cap test reading another key
completeness_wrong_key(data) ==
    LET has(k) == Get(data, k) # PyNone IN
    [score |-> (IF has("revenue") THEN ScoreRevenue ELSE 0)
               + (IF has("eps") THEN ScoreEps ELSE 0)
               + (IF has("employees") THEN ScoreMarketCap ELSE 0),
     issues |-> (IF has("revenue") THEN <<>> ELSE <<"Missing revenue data">>)
                \o (IF has("eps") THEN <<>> ELSE <<"Missing EPS data">>)
                \o (IF has("employees") THEN <<>> ELSE <<"Missing market cap">>)]

\* "Check data completeness": points and issues for revenue, eps, market_cap
completeness(data) ==
    LET has(k) == Get(data, k) # PyNone IN
    [score |-> (IF has("revenue") THEN ScoreRevenue ELSE 0)
               + (IF has("eps") THEN ScoreEps ELSE 0)
               + (IF has("market_cap") THEN ScoreMarketCap ELSE 0),
     issues |-> (IF has("revenue") THEN <<>> ELSE <<"Missing revenue data">>)
                \o (IF has("eps") THEN <<>> ELSE <<"Missing EPS data">>)
                \o (IF has("market_cap") THEN <<>> ELSE <<"Missing market cap">>)]

\* "Check data recency" with the two year tests as independent ifs on >=
recency_accumulating(data, clock) ==
    IF Truthy(Get(data, "quarter")) /\ Truthy(Get(data, "fiscal_year"))
    THEN LET current_year == get_current_fiscal_period(clock).year
             fy == Get(data, "fiscal_year")
         IN  [score |-> (IF fy.i >= current_year THEN ScoreCurrentYear ELSE 0)
                        + (IF fy.i >= current_year - 1
                           THEN ScorePreviousYear ELSE 0),
              issues |-> IF fy.i >= current_year - 1 THEN <<>>
                         ELSE <<"Data is from " \o YearText(fy)
                                \o ", potentially outdated">>]
    ELSE [score |-> 0, issues |-> <<>>]

\* "Check data recency"; clock is what datetime.now() returns inside
\* get_current_fiscal_period
recency(data, clock) ==
    IF Truthy(Get(data, "quarter")) /\ Truthy(Get(data, "fiscal_year"))
    THEN LET current_year == get_current_fiscal_period(clock).year
             fy == Get(data, "fiscal_year")
         IN  IF fy = PyInt(current_year)
             THEN [score |-> ScoreCurrentYear, issues |-> <<>>]
             ELSE IF fy = PyInt(current_year - 1)
             THEN [score |-> ScorePreviousYear, issues |-> <<>>]
             ELSE [score |-> 0,
                   issues |-> <<"Data is from " \o YearText(fy)
                                \o ", potentially outdated">>]
    ELSE [score |-> 0, issues |-> <<>>]

\* "Determine quality level" with strict comparisons
quality_level_strict(quality_score) ==
    IF quality_score > HighThreshold
    THEN [level |-> "high", text |-> "High Quality"]
    ELSE IF quality_score > MediumThreshold
    THEN [level |-> "medium", text |-> "Medium Quality"]
    ELSE [level |-> "low", text |-> "Limited Data"]

\* "Determine quality level"
quality_level(quality_score) ==
    IF quality_score >= HighThreshold
    THEN [level |-> "high", text |-> "High Quality"]
    ELSE IF quality_score >= MediumThreshold
    THEN [level |-> "medium", text |-> "Medium Quality"]
    ELSE [level |-> "low", text |-> "Limited Data"]

\* the returned dict with the recency issues listed first
validation_record_recency_first(c, r) ==
    [score |-> c.score + r.score,
     level |-> quality_level(c.score + r.score).level,
     text |-> quality_level(c.score + r.score).text,
     issues |-> r.issues \o c.issues]

\* the returned dict, from the two checks' points and issues
validation_record(c, r) ==
    [score |-> c.score + r.score,
     level |-> quality_level(c.score + r.score).level,
     text |-> quality_level(c.score + r.score).text,
     issues |-> c.issues \o r.issues]

validate_financial_data(data, ticker, clock) ==
    validation_record(completeness(data), recency(data, clock))

\* ------------------------------------------------------- external services

\* An exception text of n characters; the characters cycle through the
\* digits so that different cuts of one text differ.
RECURSIVE ErrText(_)
ErrText(n) == IF n = 0 THEN "" ELSE ErrText(n - 1) \o ToString(n % 10)

\* the lengths tried: empty, one character, around the two cut points of
\* the code (IssueErrLen, PlaceholderErrLen) and up to MaxErrLen
ErrLens == {n \in 0..MaxErrLen : \/ n <= 1
                                  \/ n \in 49..51
                                  \/ n >= 99}

ErrTexts == {ErrText(n) : n \in ErrLens}

\* what yfinance's Ticker(ticker).info holds: dollars, per-mille growth
Infos == [totalRevenue : {PyNone, PyInt(0), PyInt(2000000000)},
          trailingEps : {PyNone, PyInt(3)},
          marketCap : {PyNone, PyInt(1500000000)},
          revenueGrowth : {PyNone, PyInt(0), PyInt(50)},
          fullTimeEmployees : {PyNone, PyInt(1200)}]

NoInfo == [totalRevenue |-> PyNone, trailingEps |-> PyNone,
           marketCap |-> PyNone, revenueGrowth |-> PyNone,
           fullTimeEmployees |-> PyNone]

\* one market-data lookup either raises or answers with an info dict
MarketOutcomes ==
    {[kind |-> "raise", text |-> e, info |-> NoInfo] : e \in ErrTexts}
    \cup {[kind |-> "ok", text |-> "", info |-> i] : i \in Infos}

\* one chat completion either raises or answers with a message content
Contents == {"", "Strategic themes", "COMPANY: IBM"}

ChatOutcomes ==
    {[kind |-> "raise", text |-> e, content |-> ""] : e \in ErrTexts}
    \cup {[kind |-> "ok", text |-> "", content |-> c] : c \in Contents}

\* get_openai_client returns the client, or None when construction failed
Clients == {"client", "None"}

\* str(e) of the AttributeError raised by None.chat
NoneClientError == "'NoneType' object has no attribute 'chat'"

\* --------------------------------------------- get_enhanced_financial_data

IssueErrLen == 50
MillionsPerQuarter == 4000000

\* the except branch's dict keeping 100 characters of the exception text
failure_record_long(e, p, last_updated) ==
    [revenue |-> PyNone, eps |-> PyNone, quarter |-> PyStr(p.quarter),
     fiscal_year |-> PyInt(p.year), quarter_end_date |-> p.end,
     market_cap |-> PyNone, revenue_growth |-> PyNone,
     employees |-> PyNone, last_updated |-> last_updated,
     validation |-> [score |-> 0, level |-> "low", text |-> "No Data",
                     issues |-> <<"API Error: " \o Take(e, 100)>>],
     error |-> e]

\* the except branch's dict; p is what get_current_fiscal_period returned
failure_record(e, p, last_updated) ==
    [revenue |-> PyNone, eps |-> PyNone, quarter |-> PyStr(p.quarter),
     fiscal_year |-> PyInt(p.year), quarter_end_date |-> p.end,
     market_cap |-> PyNone, revenue_growth |-> PyNone,
     employees |-> PyNone, last_updated |-> last_updated,
     validation |-> [score |-> 0, level |-> "low", text |-> "No Data",
                     issues |-> <<"API Error: " \o Take(e, IssueErrLen)>>],
     error |-> e]

\* the except branch: clock1 and clock2 are its two reads of the clock
enhanced_failure(e, clock1, clock2) ==
    failure_record(e, get_current_fiscal_period(clock1), clock2)

\* revenue = info.get('totalRevenue'); if revenue: revenue / 1e6 / 4
quarterly_revenue(total) ==
    IF Truthy(total) THEN PyInt(total.i \div MillionsPerQuarter) ELSE total

\* the data dict of the try branch before validation
enhanced_data(info, p, last_updated) ==
    [revenue |-> quarterly_revenue(info.totalRevenue),
     eps |-> info.trailingEps,
     quarter |-> PyStr(p.quarter), fiscal_year |-> PyInt(p.year),
     quarter_end_date |-> p.end, market_cap |-> info.marketCap,
     revenue_growth |-> IF Truthy(info.revenueGrowth)
                        THEN PyInt(info.revenueGrowth.i * 100)
                        ELSE PyNone,
     employees |-> info.fullTimeEmployees,
     last_updated |-> last_updated]

\* data['validation'] = validate_financial_data(data, ticker)
validated(data, ticker, clock) ==
    [validation |-> validate_financial_data(data, ticker, clock)] @@ data

\* the try branch after a lookup that answered: clock1, clock2 and clock3
\* are its reads of the clock (period, last_updated, validation)
enhanced_success(ticker, info, clock1, clock2, clock3) ==
    validated(enhanced_data(info, get_current_fiscal_period(clock1), clock2),
              ticker, clock3)

\* One request to the market-data API; no exception leaves the function.
get_enhanced_financial_data(ticker, outcome, clock1, clock2, clock3) ==
    IF outcome.kind = "ok"
    THEN [raised |-> FALSE, reqs |-> 1,
          value |-> enhanced_success(ticker, outcome.info,
                                     clock1, clock2, clock3)]
    ELSE [raised |-> FALSE, reqs |-> 1,
          value |-> enhanced_failure(outcome.text, clock1, clock2)]

\* ------------------------------------------------------------ LLM wrappers

PlaceholderErrLen == 100

\* client.chat.completions.create(...) repeated once after a failure
chat_completion_retry(client, outcome) ==
    IF client = "None"
    THEN [exc |-> TRUE, text |-> NoneClientError, content |-> "", reqs |-> 0]
    ELSE IF outcome.kind = "raise"
    THEN [exc |-> TRUE, text |-> outcome.text, content |-> "", reqs |-> 2]
    ELSE [exc |-> FALSE, text |-> "", content |-> outcome.content, reqs |-> 1]

\* client = get_openai_client(); client.chat.completions.create(...);
\* response.choices[0].message.content.  A None client raises before any
\* request is sent.
chat_completion(client, outcome) ==
    IF client = "None"
    THEN [exc |-> TRUE, text |-> NoneClientError, content |-> "", reqs |-> 0]
    ELSE IF outcome.kind = "raise"
    THEN [exc |-> TRUE, text |-> outcome.text, content |-> "", reqs |-> 1]
    ELSE [exc |-> FALSE, text |-> "", content |-> outcome.content, reqs |-> 1]

\* the except branches' string with the exception text left whole
placeholder_uncut(prefix, e) == prefix \o e \o "..."

\* f"<prefix>{str(e)[:100]}..."
placeholder(prefix, e) == prefix \o Take(e, PlaceholderErrLen) \o "..."

AnalysisPrefix == "Analysis temporarily unavailable: "
IbmPrefix == "IBM perspective analysis temporarily unavailable: "
SearchPrefix == "Search temporarily unavailable. Error: "

analyze_with_ai(company_info, client, outcome) ==
    LET r == chat_completion(client, outcome) IN
    [raised |-> FALSE, reqs |-> r.reqs,
     value |-> IF r.exc THEN placeholder(AnalysisPrefix, r.text)
               ELSE r.content]

generate_ibm_perspective(company_info, market_name, client, outcome) ==
    LET r == chat_completion(client, outcome) IN
    [raised |-> FALSE, reqs |-> r.reqs,
     value |-> IF r.exc THEN placeholder(IbmPrefix, r.text)
               ELSE r.content]

search_market_for_topic(market_name, topic, companies, client, outcome) ==
    LET r == chat_completion(client, outcome) IN
    [raised |-> FALSE, reqs |-> r.reqs,
     value |-> IF r.exc THEN placeholder(SearchPrefix, r.text)
               ELSE r.content]

\* --------------------------------------------------------- get_company_info

\* a key the info dict does not hold
PyAbsent == [t |-> "absent", i |-> 0, s |-> ""]

\* info.get(k, default)
GetOr(info, k, default) == IF info[k] = PyAbsent THEN default ELSE info[k]

DescriptionLen == 300

\* str(e) of the TypeError raised by None[:300]
NoneSliceError == "'NoneType' object is not subscriptable"

\* the profile fields of Ticker(ticker).info read by get_company_info
Profiles == [longName : {PyAbsent, PyStr("Snowflake Inc.")},
             sector : {PyAbsent, PyStr("Technology")},
             industry : {PyAbsent, PyStr("Software - Application")},
             longBusinessSummary : {PyAbsent, PyNone,
                                    PyStr("Cloud data platform")},
             website : {PyAbsent, PyStr("https://www.snowflake.com")}]

NoProfile == [longName |-> PyAbsent, sector |-> PyAbsent,
              industry |-> PyAbsent, longBusinessSummary |-> PyAbsent,
              website |-> PyAbsent]

ProfileOutcomes ==
    {[kind |-> "raise", text |-> e, info |-> NoProfile] : e \in ErrTexts}
    \cup {[kind |-> "ok", text |-> "", info |-> i] : i \in Profiles}

\* the except branch's dict without the error entry
company_failure_no_error(ticker, e, fin, last_refreshed) ==
    [raised |-> fin.raised, reqs |-> 1 + fin.reqs,
     value |-> [name |-> PyStr(ticker), ticker |-> ticker,
                sector |-> PyStr("Technology"),
                industry |-> PyStr("Software"),
                description |-> "Technology company",
                financial_data |-> fin.value,
                website |-> PyStr(""), last_refreshed |-> last_refreshed]]

\* the except branch's dict after a second, repeated lookup
company_failure_relookup(ticker, e, fin, last_refreshed) ==
    [raised |-> fin.raised, reqs |-> 2 + fin.reqs,
     value |-> [name |-> PyStr(ticker), ticker |-> ticker,
                sector |-> PyStr("Technology"),
                industry |-> PyStr("Software"),
                description |-> "Technology company",
                financial_data |-> fin.value,
                website |-> PyStr(""), last_refreshed |-> last_refreshed,
                error |-> e]]

\* the except branch's dict; fin is what get_enhanced_financial_data
\* returned
company_failure(ticker, e, fin, last_refreshed) ==
    [raised |-> fin.raised, reqs |-> 1 + fin.reqs,
     value |-> [name |-> PyStr(ticker), ticker |-> ticker,
                sector |-> PyStr("Technology"),
                industry |-> PyStr("Software"),
                description |-> "Technology company",
                financial_data |-> fin.value,
                website |-> PyStr(""), last_refreshed |-> last_refreshed,
                error |-> e]]

\* the try branch's dict
company_success(ticker, info, summary, fin, last_refreshed) ==
    [raised |-> fin.raised, reqs |-> 1 + fin.reqs,
     value |-> [name |-> GetOr(info, "longName", PyStr(ticker)),
                ticker |-> ticker,
                sector |-> GetOr(info, "sector", PyStr("Technology")),
                industry |-> GetOr(info, "industry", PyStr("Software")),
                description |-> Take(summary.s, DescriptionLen) \o "...",
                financial_data |-> fin.value,
                website |-> GetOr(info, "website", PyStr("")),
                last_refreshed |-> last_refreshed]]

\* the outcome of the try branch up to the description entry
company_lookup(ticker, profile, summary, fin, last_refreshed) ==
    IF profile.kind = "raise"
    THEN company_failure(ticker, profile.text, fin, last_refreshed)
    ELSE IF summary.t # "str"
    THEN company_failure(ticker, NoneSliceError, fin, last_refreshed)
    ELSE company_success(ticker, profile.info, summary, fin, last_refreshed)

\* The first lookup is get_company_info's own, the second the one inside
\* get_enhanced_financial_data, which both branches call.  The dict display
\* is evaluated in order: a None summary raises before financial_data.
get_company_info(ticker, profile, outcome, clock1, clock2, clock3, clock4) ==
    company_lookup(ticker, profile,
                   GetOr(profile.info, "longBusinessSummary",
                         PyStr("Technology company")),
                   get_enhanced_financial_data(ticker, outcome,
                                               clock1, clock2, clock3),
                   clock4)

\* ------------------------------------------------------ create_modern_chart

\* for i in range(4)
Bars == 4

\* random.randint(800, 2000)
BaseLow == 800
BaseHigh == 2000

\* random.uniform(0.95, 1.05) and 1.0, in hundredths
VarianceLow == 95
VarianceHigh == 105
Hundredths == 100

\* i * 0.02, in hundredths
DeclinePerQuarter == 2

\* the label with the year taken back from the first earlier quarter on,
\* whatever the current quarter
chart_label_early_decrement(current_quarter, current_year, i) ==
    [q_num |-> IF current_quarter = PyStr("Q1")
               THEN (IF (1 - i) % 4 = 0 THEN 4 ELSE (1 - i) % 4)
               ELSE IF current_quarter = PyStr("Q2")
               THEN (IF (2 - i) % 4 = 0 THEN 4 ELSE (2 - i) % 4)
               ELSE IF current_quarter = PyStr("Q3")
               THEN (IF (3 - i) % 4 = 0 THEN 4 ELSE (3 - i) % 4)
               ELSE (IF (4 - i) % 4 = 0 THEN 4 ELSE (4 - i) % 4),
     year |-> IF i >= 1 THEN current_year - 1 ELSE current_year]

\* q_num and year of the label built by iteration i
chart_label(current_quarter, current_year, i) ==
    IF current_quarter = PyStr("Q1")
    THEN [q_num |-> IF (1 - i) % 4 = 0 THEN 4 ELSE (1 - i) % 4,
          year |-> IF i >= 1 THEN current_year - 1 ELSE current_year]
    ELSE IF current_quarter = PyStr("Q2")
    THEN [q_num |-> IF (2 - i) % 4 <= 0 THEN ((2 - i) % 4) + 4 ELSE (2 - i) % 4,
          year |-> IF i >= 2 THEN current_year - 1 ELSE current_year]
    ELSE IF current_quarter = PyStr("Q3")
    THEN [q_num |-> IF (3 - i) % 4 <= 0 THEN ((3 - i) % 4) + 4 ELSE (3 - i) % 4,
          year |-> IF i >= 3 THEN current_year - 1 ELSE current_year]
    ELSE [q_num |-> IF (4 - i) % 4 = 0 THEN 4 ELSE (4 - i) % 4,
          year |-> IF i >= 4 THEN current_year - 1 ELSE current_year]

\* f"Q{q_num} {year}"
label_text(l) == "Q" \o ToString(l.q_num) \o " " \o ToString(l.year)

\* the value with the 2% per quarter added instead of taken off
chart_revenue_rising(revenue, i, base, variance) ==
    IF Truthy(revenue) /\ i = 0
    THEN revenue.i * Hundredths * Hundredths
    ELSE (IF Truthy(revenue) THEN revenue.i ELSE base[i])
         * (IF i > 0 THEN variance[i] ELSE Hundredths)
         * (Hundredths + i * DeclinePerQuarter)

\* the value iteration i puts in front of revenues, in ten-thousandths of a
\* million; base and variance are what random returns in that iteration
chart_revenue(revenue, i, base, variance) ==
    IF Truthy(revenue) /\ i = 0
    THEN revenue.i * Hundredths * Hundredths
    ELSE (IF Truthy(revenue) THEN revenue.i ELSE base[i])
         * (IF i > 0 THEN variance[i] ELSE Hundredths)
         * (Hundredths - i * DeclinePerQuarter)

\* the x and y of the bar trace; insert(0, ...) leaves iteration i at
\* position Bars - i
create_modern_chart(financial_data, base, variance) ==
    [quarters |->
        [k \in 1..Bars |->
            label_text(chart_label(financial_data.quarter,
                                   financial_data.fiscal_year.i, Bars - k))],
     revenues |->
        [k \in 1..Bars |->
            chart_revenue(financial_data.revenue, Bars - k, base, variance)]]

\* -------------------------------------------- display_search_results_modern

\* the positions at which sub starts in str
Occurrences(str, sub) ==
    {i \in 1..(Len(str) - Len(sub) + 1) : SubSeq(str, i, i + Len(sub) - 1) = sub}

\* str.find(sub) counted from 1: the least such position, 0 if none
Find(str, sub) ==
    IF Occurrences(str, sub) = {} THEN 0
    ELSE CHOOSE i \in Occurrences(str, sub) :
             \A j \in Occurrences(str, sub) : i <= j

\* sub in str
Contains(str, sub) == Occurrences(str, sub) # {}

\* str.split(sep)
RECURSIVE Split(_, _)
SplitAt(str, sep, p) ==
    IF p = 0 THEN <<str>>
    ELSE <<SubSeq(str, 1, p - 1)>>
         \o Split(SubSeq(str, p + Len(sep), Len(str)), sep)

Split(str, sep) == SplitAt(str, sep, Find(str, sep))

\* str.replace(old, '')
RECURSIVE Remove(_, _)
RemoveAt(str, old, p) ==
    IF p = 0 THEN str
    ELSE SubSeq(str, 1, p - 1)
         \o Remove(SubSeq(str, p + Len(old), Len(str)), old)

Remove(str, old) == RemoveAt(str, old, Find(str, old))

Whitespace == {" ", "\n"}

\* str.strip(chars), one end after the other
RECURSIVE LStrip(_, _)
LStrip(str, chars) ==
    IF str # "" /\ SubSeq(str, 1, 1) \in chars
    THEN LStrip(SubSeq(str, 2, Len(str)), chars) ELSE str

RECURSIVE RStrip(_, _)
RStrip(str, chars) ==
    IF str # "" /\ SubSeq(str, Len(str), Len(str)) \in chars
    THEN RStrip(SubSeq(str, 1, Len(str) - 1), chars) ELSE str

Strip(str, chars) == RStrip(LStrip(str, chars), chars)

\* [line.strip() for line in section.strip().split('\n') if line.strip()]
section_lines(section) ==
    LET raw == Split(Strip(section, Whitespace), "\n")
        stripped == [k \in 1..Len(raw) |-> Strip(raw[k], Whitespace)]
    IN  SelectSeq(stripped, LAMBDA line : line # "")

\* the card of a section of at least four lines
result_card(lines) ==
    [company |-> Strip(Remove(lines[1], "COMPANY:"), Whitespace),
     executive |-> Strip(Remove(lines[2], "EXECUTIVE:"), Whitespace),
     quote |-> Strip(Strip(Remove(lines[3], "QUOTE:"), Whitespace), {"\""}),
     source |-> Strip(Remove(lines[4], "SOURCE:"), Whitespace),
     relevance |-> IF Len(lines) > 4
                   THEN Strip(Remove(lines[5], "RELEVANCE:"), Whitespace)
                   ELSE ""]

\* the cards of the sections from the k-th on
RECURSIVE result_cards(_, _)
result_cards(sections, k) ==
    IF k > Len(sections) THEN <<>>
    ELSE (IF Strip(sections[k], Whitespace) # ""
             /\ Len(section_lines(sections[k])) >= 4
          THEN <<result_card(section_lines(sections[k]))>> ELSE <<>>)
         \o result_cards(sections, k + 1)

\* what is drawn: the "Search Unavailable" card or one card per section
display_search_results_modern(results) ==
    IF Contains(results, "Error:") \/ Contains(results, "unavailable")
    THEN [unavailable |-> TRUE, cards |-> <<>>]
    ELSE [unavailable |-> FALSE,
          cards |-> result_cards(Split(results, "---"), 1)]

\* ------------------------------------------ display_financial_metrics_modern

\* f"{x:.1f}" and f"{x:.2f}" for x given in tenths and in hundredths
Tenths(n) == ToString(n \div 10) \o "." \o ToString(n % 10)
Cents(n) ==
    ToString(n \div 100) \o "." \o ToString((n % 100) \div 10)
    \o ToString(n % 10)

\* the delta of the Revenue metric; draw is what random returns: status,
\* beat_amount and beat_pct (in tenths)
revenue_delta(draw) ==
    IF draw.status = "beat"
    THEN [text |-> "+$" \o ToString(draw.amount) \o "M ("
                   \o Tenths(draw.pct) \o "%) vs consensus",
          color |-> "normal"]
    ELSE IF draw.status = "miss"
    THEN [text |-> "-$" \o ToString(draw.amount) \o "M (-"
                   \o Tenths(draw.pct) \o "%) vs consensus",
          color |-> "inverse"]
    ELSE [text |-> "In-line with consensus", color |-> "off"]

\* the delta of the EPS metric; beat_amount in hundredths, beat_pct in tenths
eps_delta(draw) ==
    IF draw.status = "beat"
    THEN [text |-> "+$" \o Cents(draw.amount) \o " ("
                   \o Tenths(draw.pct) \o "%) vs consensus",
          color |-> "normal"]
    ELSE IF draw.status = "miss"
    THEN [text |-> "-$" \o Cents(draw.amount) \o " (-"
                   \o Tenths(draw.pct) \o "%) vs consensus",
          color |-> "inverse"]
    ELSE [text |-> "In-line with consensus", color |-> "off"]

\* st.metric("Revenue", ...)
revenue_metric(financial_data, draw) ==
    IF Truthy(financial_data.revenue)
    THEN [value |-> "$" \o ToString(financial_data.revenue.i) \o "M",
          delta |-> revenue_delta(draw).text,
          color |-> revenue_delta(draw).color]
    ELSE [value |-> "Data Unavailable",
          delta |-> "Limited financial reporting", color |-> "normal"]

\* st.metric("EPS", ...)
eps_metric(financial_data, draw) ==
    IF Truthy(financial_data.eps)
    THEN [value |-> "$" \o ToString(financial_data.eps.i) \o ".00",
          delta |-> eps_delta(draw).text, color |-> eps_delta(draw).color]
    ELSE [value |-> "Data Unavailable",
          delta |-> "Limited earnings data", color |-> "normal"]

\* st.metric("Revenue Growth", ...)
growth_metric(financial_data) ==
    IF Truthy(financial_data.revenue_growth)
    THEN [value |-> (IF financial_data.revenue_growth.i >= 0 THEN "+" ELSE "")
                    \o ToString(financial_data.revenue_growth.i) \o ".0%",
          delta |-> "Year-over-year",
          color |-> IF financial_data.revenue_growth.i > 0
                    THEN "normal" ELSE "inverse"]
    ELSE [value |-> "Data Unavailable",
          delta |-> "Growth metrics limited", color |-> "normal"]

\* what the function draws: the header, the three metrics and the expander
\* listing the issues
display_financial_metrics_modern(financial_data, revenue_draw, eps_draw) ==
    [quarter |-> financial_data.quarter,
     fiscal_year |-> financial_data.fiscal_year,
     quarter_ended |-> financial_data.quarter_end_date,
     level |-> financial_data.validation.level,
     text |-> financial_data.validation.text,
     revenue |-> revenue_metric(financial_data, revenue_draw),
     eps |-> eps_metric(financial_data, eps_draw),
     revenue_growth |-> growth_metric(financial_data),
     details |-> financial_data.validation.issues]

\* ------------------------------------------------ generate_validated_quotes

\* f"{v}" of None, a number or a string
Formatted(v) ==
    IF v.t = "int" THEN ToString(v.i)
    ELSE IF v.t = "str" THEN v.s ELSE "None"

\* the names every ticker gets, whether listed or not
executives_generic(ticker) ==
    [ceo |-> ticker \o " CEO", cfo |-> ticker \o " CFO"]

\* executive_names and the lookup of the ticker in it
executives(ticker) ==
    IF ticker = "IBM"
    THEN [ceo |-> "Arvind Krishna", cfo |-> "James Kavanaugh"]
    ELSE IF ticker = "CRM"
    THEN [ceo |-> "Marc Benioff", cfo |-> "Amy Weaver"]
    ELSE IF ticker = "ORCL"
    THEN [ceo |-> "Safra Catz", cfo |-> "Safra Catz"]
    ELSE IF ticker = "MSFT"
    THEN [ceo |-> "Satya Nadella", cfo |-> "Amy Hood"]
    ELSE IF ticker = "DDOG"
    THEN [ceo |-> "Olivier Pomel", cfo |-> "David Obstler"]
    ELSE IF ticker = "SNOW"
    THEN [ceo |-> "Frank Slootman", cfo |-> "Mike Scarpelli"]
    ELSE [ceo |-> ticker \o " CEO", cfo |-> ticker \o " CFO"]

MonthNames ==
    <<"January", "February", "March", "April", "May", "June", "July",
      "August", "September", "October", "November", "December">>

\* %d: the day of the month on two digits
TwoDigits(n) == IF n < 10 THEN "0" \o ToString(n) ELSE ToString(n)

\* strftime("%B %d, %Y")
strftime(d) ==
    MonthNames[d.month] \o " " \o TwoDigits(d.day) \o ", " \o ToString(d.year)

UpperCase == "ABCDEFGHIJKLMNOPQRSTUVWXYZ"
LowerCase == "abcdefghijklmnopqrstuvwxyz"

\* str.lower() of one character
LowerChar(c) ==
    IF Contains(UpperCase, c)
    THEN LET p == Find(UpperCase, c) IN SubSeq(LowerCase, p, p)
    ELSE c

\* str.lower()
RECURSIVE Lower(_)
Lower(str) ==
    IF str = "" THEN ""
    ELSE LowerChar(SubSeq(str, 1, 1)) \o Lower(SubSeq(str, 2, Len(str)))

\* one dict of the quotes list
quote_record(text, executive, source, url, citation, financial_data) ==
    [quote |-> text, executive |-> executive,
     source |-> Formatted(financial_data.quarter) \o " "
                \o Formatted(financial_data.fiscal_year) \o " " \o source,
     date |-> strftime(financial_data.quarter_end_date),
     period |-> Formatted(financial_data.quarter) \o " "
                \o Formatted(financial_data.fiscal_year),
     data_quality |-> financial_data.validation.level,
     citation_url |-> url, citation_text |-> citation]

generate_validated_quotes(company_info) ==
    LET financial_data == company_info.financial_data
        period == Formatted(financial_data.quarter) \o " "
                  \o Formatted(financial_data.fiscal_year)
        company_name == Formatted(company_info.name)
        ticker == company_info.ticker
        names == executives(ticker)
        investor == "https://investor." \o Lower(ticker) \o ".com/"
    IN  << quote_record(
               "Our " \o period \o " results demonstrate the continued "
                   \o "strength of our platform and the strategic progress "
                   \o "we're making across our key growth initiatives.",
               names.ceo \o ", Chief Executive Officer",
               "Earnings Call - Prepared Remarks",
               investor \o "events-and-presentations",
               company_name \o " Investor Relations - Earnings Calls",
               financial_data),
           quote_record(
               "We delivered solid financial performance in " \o period
                   \o ", with our results reflecting disciplined execution "
                   \o "and strong operational fundamentals.",
               names.cfo \o ", Chief Financial Officer",
               "Earnings Press Release",
               investor \o "news-releases",
               company_name \o " Investor Relations - Press Releases",
               financial_data),
           quote_record(
               "Looking ahead, we remain well-positioned to capitalize on "
                   \o "the significant opportunities in our markets while "
                   \o "maintaining our focus on operational excellence.",
               names.ceo \o ", Chief Executive Officer",
               "Earnings Call - Q&A Session",
               "https://www.sec.gov/edgar/search/#/entityName=" \o ticker,
               company_name \o " SEC Filings - 10-Q/10-K",
               financial_data) >>

\* -------------------------------------------------------- SOFTWARE_MARKETS

\* two of the nine markets, as listed in the source
MarketTable ==
    ("AI/ML Ops" :> << [name |-> "Datadog", ticker |-> "DDOG"],
                       [name |-> "Snowflake", ticker |-> "SNOW"],
                       [name |-> "Palantir", ticker |-> "PLTR"],
                       [name |-> "CrowdStrike", ticker |-> "CRWD"],
                       [name |-> "IBM", ticker |-> "IBM"] >>)
    @@ ("Data Fabric" :> << [name |-> "Snowflake", ticker |-> "SNOW"],
                            [name |-> "MongoDB", ticker |-> "MDB"],
                            [name |-> "Palantir", ticker |-> "PLTR"],
                            [name |-> "Oracle", ticker |-> "ORCL"],
                            [name |-> "IBM", ticker |-> "IBM"] >>)

\* each list cut to its first MaxCompanies entries
SOFTWARE_MARKETS ==
    [m \in DOMAIN MarketTable |->
        SubSeq(MarketTable[m], 1, Min(MaxCompanies, Len(MarketTable[m])))]

\* ------------------------------------------------------- inputs of Spec

Revenues == {PyNone, PyInt(0), PyInt(500)}
EpsValues == {PyNone, PyInt(3)}
MarketCaps == {PyNone, PyInt(1500000000)}
Quarters == {PyNone, PyStr(""), PyStr("Q1")}
FiscalYears == {PyNone, PyInt(0)}
               \cup {PyInt(y) : y \in (FirstYear - 2)..FirstYear}
Employees == {PyNone, PyInt(1200)}
Tickers == {"IBM", "NOW"}
Markets == DOMAIN SOFTWARE_MARKETS
Records == [revenue : Revenues, eps : EpsValues, market_cap : MarketCaps,
            quarter : Quarters, fiscal_year : FiscalYears,
            employees : Employees]

\* the records create_modern_chart is applied to
ChartQuarters == {PyStr("Q1"), PyStr("Q2"), PyStr("Q3"), PyStr("Q4")}
ChartRecords == [revenue : Revenues, quarter : ChartQuarters,
                 fiscal_year : {PyInt(y) : y \in FirstYear..LastYear}]

\* what random.randint and random.uniform return
BaseDraws == {BaseLow, BaseHigh}
VarianceDraws == {VarianceLow, VarianceHigh}

\* the lines of one section of an LLM answer, in the order of the prompt
AnswerFields ==
    << [prefix |-> "COMPANY:", text |-> "IBM"],
       [prefix |-> "EXECUTIVE:", text |-> "Arvind Krishna, CEO"],
       [prefix |-> "QUOTE:", text |-> "AI drives growth"],
       [prefix |-> "SOURCE:", text |-> "Recent Earnings Discussion"],
       [prefix |-> "RELEVANCE:", text |-> "Core to strategy"] >>

\* the orders in which an answer can list the lines of a section
LineOrders ==
    {f \in [1..Len(AnswerFields) -> 1..Len(AnswerFields)] :
        \A a, b \in 1..Len(AnswerFields) : a # b => f[a] # f[b]}

\* a section: its lines in some order, with or without the RELEVANCE line
AnswerSections ==
    {[k \in 1..n |-> AnswerFields[f[k]]] :
        f \in LineOrders, n \in {Len(AnswerFields) - 1, Len(AnswerFields)}}

\* the line the LLM writes for a field; the quote is written in quotes
line_text(field) ==
    IF field.prefix = "QUOTE:"
    THEN field.prefix \o " \"" \o field.text \o "\""
    ELSE field.prefix \o " " \o field.text

\* the lines of a section from the k-th on, one per line
RECURSIVE section_text(_, _)
section_text(section, k) ==
    IF k > Len(section) THEN ""
    ELSE line_text(section[k]) \o "\n" \o section_text(section, k + 1)

\* the sections of an answer from the k-th on, each closed by ---
RECURSIVE answer_text(_, _)
answer_text(sections, k) ==
    IF k > Len(sections) THEN ""
    ELSE section_text(sections[k], 1) \o "---\n" \o answer_text(sections, k + 1)

\* what search_market_for_topic can return: one section in any order, or
\* two sections in the order of the prompt
Answers ==
    {<<a>> : a \in AnswerSections}
    \cup {<<AnswerFields, SubSeq(AnswerFields, 1, n)>> :
              n \in {Len(AnswerFields) - 1, Len(AnswerFields)}}

\* what random returns for the Revenue metric: status, beat_amount in
\* 25..100 and beat_pct in 1.5..6.0 (tenths)
RevenueDraws ==
    {[status |-> "beat", amount |-> 25, pct |-> 15],
     [status |-> "miss", amount |-> 100, pct |-> 60],
     [status |-> "inline", amount |-> 25, pct |-> 15]}

\* and for the EPS metric: beat_amount in 0.02..0.15 (hundredths) and
\* beat_pct in 3..12 (tenths)
EpsDraws ==
    {[status |-> "beat", amount |-> 2, pct |-> 30],
     [status |-> "miss", amount |-> 15, pct |-> 120],
     [status |-> "inline", amount |-> 2, pct |-> 30]}

\* the draw recorded for a metric that draws nothing
NoDraw == [status |-> "inline", amount |-> 0, pct |-> 0]

\* what the lookup inside get_enhanced_financial_data answers while
\* get_company_info runs: an exception, an empty info, a full one
CompanyLookups ==
    {[kind |-> "raise", text |-> ErrText(1), info |-> NoInfo],
     [kind |-> "ok", text |-> "", info |-> NoInfo],
     [kind |-> "ok", text |-> "",
      info |-> [totalRevenue |-> PyInt(2000000000), trailingEps |-> PyInt(3),
                marketCap |-> PyInt(1500000000), revenueGrowth |-> PyInt(50),
                fullTimeEmployees |-> PyInt(1200)]]}

\* the tickers generate_validated_quotes is applied to: the six of
\* executive_names and two others
QuoteTickers == {"IBM", "CRM", "ORCL", "MSFT", "DDOG", "SNOW", "PLTR", "MDB"}

\* what get_company_info's own lookup answered for the company quoted
QuoteProfiles ==
    {[kind |-> "raise", text |-> ErrText(1), info |-> NoProfile],
     [kind |-> "ok", text |-> "", info |-> NoProfile],
     [kind |-> "ok", text |-> "",
      info |-> [NoProfile EXCEPT !.longName = PyStr("Snowflake Inc.")]]}

\* the fields the quality score is documented to depend on
ScoredFields == {"revenue", "eps", "market_cap", "quarter", "fiscal_year"}

SameScoredFields(d1, d2) == \A k \in ScoredFields : d1[k] = d2[k]

\* ------------------------------------------- API key loading and validation

KeyPrefix == "sk-"
MinKeyLen == 50

\* a key of n characters that starts with prefix
KeyText(prefix, n) == prefix \o ErrText(n - Len(prefix))

\* "Set up OpenAI API key": secret is what st.secrets["OPENAI_API_KEY"]
\* gives (PyAbsent when the lookup raises and the bare except passes), env is
\* what os.getenv gives
load_api_key(secret, env) ==
    IF secret # PyAbsent /\ Truthy(secret) THEN secret ELSE env

\* the length test accepting every key
key_long_enough_any(key) == TRUE

\* len(openai_api_key) < 50 is false
key_long_enough(key) == Len(key) >= MinKeyLen

\* "Validate API key": the outcome of lines 47-59 for the loaded key; a key
\* that is not a string has no startswith and ends the run by AttributeError
validate_api_key(key) ==
    IF key = PyAbsent \/ ~Truthy(key)
    THEN [stopped |-> TRUE, message |-> "OpenAI API key not found"]
    ELSE IF key.t # "str"
    THEN [stopped |-> TRUE, message |-> "AttributeError"]
    ELSE IF Take(key.s, Len(KeyPrefix)) # KeyPrefix
    THEN [stopped |-> TRUE, message |-> "Invalid API key format"]
    ELSE IF ~key_long_enough(key.s)
    THEN [stopped |-> TRUE, message |-> "API key appears to be too short"]
    ELSE [stopped |-> FALSE, message |-> ""]

\* the deployments a session can run in: <<secret, environment variable>>;
\* Spec runs in the one with no secret and an acceptable environment key
KeyConfigs ==
    { <<PyStr(KeyText(KeyPrefix, MinKeyLen)), PyStr(KeyText("sk-env", MinKeyLen + 1))>>,
      <<PyStr(""), PyStr(KeyText("pk-", MinKeyLen))>>,
      <<PyStr(KeyText(KeyPrefix, MinKeyLen - 1)), PyStr(KeyText("sk-env", MinKeyLen + 1))>>,
      <<PyAbsent, PyNone>>,
      <<PyInt(7), PyStr(KeyText("sk-env", MinKeyLen + 1))>> }

\* the top of the script: the key is loaded and validated
Startup ==
    /\ openai_api_key = load_api_key(secrets, environ)
    /\ stopped = validate_api_key(openai_api_key).stopped

\* ------------------------------------------------------------- test_env.py

ShownKeyLen == 15

\* f"{b}" for a bool
BoolText(b) == IF b THEN "True" ELSE "False"

\* the lines the script prints; api_key is what os.getenv returns
test_env(api_key) ==
    <<"API Key found: " \o BoolText(api_key # PyNone)>>
    \o (IF Truthy(api_key)
        THEN <<"API Key starts with: " \o Take(api_key.s, ShownKeyLen) \o "...",
               "API Key length: " \o ToString(Len(api_key.s))>>
        ELSE <<"API Key is None - check your .env file">>)

\* the values of the environment variable: not set, set to nothing, shorter
\* and longer than the part shown
EnvKeys == {PyNone, PyStr(""), PyStr(KeyText(KeyPrefix, ShownKeyLen - 1)),
            PyStr(KeyText(KeyPrefix, MinKeyLen))}

\* ------------------------------------------------------ the script, rerun

ChooseMarket == "Choose market..."
SelectMarketOption == "Select market..."

\* what the user can type as a search topic; "" is the empty input
Terms == {"ai"}

\* no function of Spec is being applied
FnIdle ==
    /\ call = "none"
    /\ at = now
    /\ args = <<>>
    /\ ret = <<>>
    /\ raised = FALSE
    /\ reqs = 0

\* the session state and the widgets of a fresh session
AppStart ==
    /\ selected_market = ChooseMarket
    /\ checked = {}
    /\ search_market = SelectMarketOption
    /\ search_term = ""
    /\ search_results = <<>>
    /\ analysis_data = <<>>
    /\ event = "start"
    /\ netCalls = 0
    /\ llmReqs = 0
    /\ searchReqs = 0
    /\ shown = <<>>
    /\ searched = <<>>

\* [c for c in companies if c['ticker'] != 'Private']
public_companies(market) ==
    SelectSeq(SOFTWARE_MARKETS[market], LAMBDA c : c.ticker # "Private")

\* the checkboxes a run draws; the state of a checkbox that is not drawn is
\* dropped by the framework
rendered(market) ==
    IF market = ChooseMarket THEN {}
    ELSE {public_companies(market)[i].ticker :
              i \in 1..Len(public_companies(market))}

\* the companies whose checkbox is ticked, in list order
selected_companies(market, ticked) ==
    IF market = ChooseMarket THEN <<>>
    ELSE SelectSeq(public_companies(market), LAMBDA c : c.ticker \in ticked)

\* the key with the market left out
result_key_term_only(market, term) == "_" \o term

\* f"{search_market}_{search_term}"
result_key(market, term) == market \o "_" \o term

\* the assignment dropping the other entries
Store_alone(results, key, value) == [k \in {key} |-> value]

\* st.session_state.search_results[key] = results
Store(results, key, value) ==
    [k \in DOMAIN results \cup {key} |->
        IF k = key THEN value ELSE results[k]]

\* what the external services answer during one company's block
AppOutcomes ==
    {[profile |-> [kind |-> "ok", text |-> "",
                   info |-> [NoProfile EXCEPT !.longName = PyStr("Snowflake Inc.")]],
      lookup |-> [kind |-> "ok", text |-> "",
                  info |-> [NoInfo EXCEPT !.totalRevenue = PyInt(2000000000)]],
      analysis |-> [kind |-> "ok", text |-> "", content |-> "Strategic themes"],
      ibm |-> [kind |-> "raise", text |-> ErrText(1), content |-> ""]],
     [profile |-> [kind |-> "raise", text |-> ErrText(1), info |-> NoProfile],
      lookup |-> [kind |-> "raise", text |-> ErrText(1), info |-> NoInfo],
      analysis |-> [kind |-> "raise", text |-> ErrText(1), content |-> ""],
      ibm |-> [kind |-> "ok", text |-> "", content |-> "Strategic themes"]]}

SearchOutcomes ==
    {[kind |-> "ok", text |-> "", content |-> "COMPANY: IBM"],
     [kind |-> "raise", text |-> ErrText(1), content |-> ""]}

\* the requests of one pass of the loop body: market-data lookups and
\* chat completions
company_requests(company_info, market, cl, o) ==
    [lookups |-> company_info.reqs,
     completions |->
         analyze_with_ai(company_info.value, cl, o.analysis).reqs
         + generate_ibm_perspective(company_info.value, market, cl, o.ibm).reqs]

\* the tickers of the markets
AppTickers ==
    UNION {{SOFTWARE_MARKETS[m][i].ticker : i \in 1..Len(SOFTWARE_MARKETS[m])} :
               m \in Markets}

\* the dates at which a session runs
AppDates == {Date(FirstYear, 1, 1)}

\* the loop body for one company, tabulated over its inputs: the ticker, the
\* answers of the services, the market, the client and the clock (adding
\* the empty function leaves the table as it is and has it worked out once)
company_block ==
    [t \in AppTickers, o \in AppOutcomes, m \in Markets, cl \in Clients,
     d \in AppDates |->
        company_requests(
            get_company_info(t, o.profile, o.lookup, d, d, d, d), m, cl, o)]
    @@ <<>>

\* r + s, field by field
AddRequests(r, s) ==
    [lookups |-> r.lookups + s.lookups,
     completions |-> r.completions + s.completions]

\* "Display Analysis Results": the requests of the loop over the launched
\* companies; outs[i] is what the services answer for the i-th company
RECURSIVE analysis_requests(_, _, _, _, _)
analysis_requests(companies, market, cl, outs, clock) ==
    IF companies = <<>> THEN [lookups |-> 0, completions |-> 0]
    ELSE AddRequests(
             company_block[Head(companies).ticker, Head(outs), market, cl,
                           clock],
             analysis_requests(Tail(companies), market, cl, Tail(outs),
                               clock))

\* One run of the script from top to bottom with the widgets at the given
\* values; launch and button tell which button, if any, was clicked.
Rerun(ev, market, ticked, smarket, sterm, launch, button) ==
    LET drawn == ticked \cap rendered(market)
        chosen == selected_companies(market, drawn)
        data == IF launch /\ chosen # <<>>
                THEN [companies |-> chosen, market |-> market]
                ELSE analysis_data
        launched == "companies" \in DOMAIN data
        count == IF launched THEN Len(data.companies) ELSE 0
        search_enabled == smarket # SelectMarketOption /\ sterm # ""
        searching == button /\ search_enabled
        key == result_key(smarket, sterm)
    IN  \E outs \in [1..count -> AppOutcomes],
           answer \in IF searching THEN SearchOutcomes
                      ELSE {CHOOSE a \in SearchOutcomes : a.kind = "ok"} :
        LET analysed == IF launched
                        THEN analysis_requests(data.companies, data.market,
                                               openai_client, outs, now)
                        ELSE [lookups |-> 0, completions |-> 0]
            found == search_market_for_topic(smarket, sterm,
                         public_companies(smarket), openai_client, answer)
            results == IF searching
                       THEN Store(search_results, key, found.value)
                       ELSE search_results
        IN  /\ ~validate_api_key(load_api_key(secrets, environ)).stopped
            /\ selected_market' = market
            /\ checked' = drawn
            /\ search_market' = smarket
            /\ search_term' = sterm
            /\ analysis_data' = data
            /\ search_results' = results
            /\ event' = ev
            /\ searchReqs' = IF searching THEN found.reqs ELSE 0
            /\ llmReqs' = analysed.completions
                           + (IF searching THEN found.reqs ELSE 0)
            /\ netCalls' = analysed.lookups + analysed.completions
                            + (IF searching THEN found.reqs ELSE 0)
            /\ shown' = IF sterm # "" /\ smarket # SelectMarketOption
                           /\ key \in DOMAIN results
                        THEN <<results[key]>> ELSE <<>>
            /\ searched' = IF searching
                           THEN Store(searched, <<smarket, sterm>>, found.value)
                           ELSE searched
            /\ openai_api_key' = load_api_key(secrets, environ)
            /\ stopped' = FALSE
            /\ UNCHANGED <<openai_client, secrets, environ, fnvars>>

\* ---------------------------------------------------------- interactions

SelectMarket ==
    \E m \in ({ChooseMarket} \cup Markets) \ {selected_market} :
        Rerun("SelectMarket", m, checked, search_market, search_term,
              FALSE, FALSE)

ToggleCompany ==
    \E t \in rendered(selected_market) :
        Rerun("ToggleCompany", selected_market,
              IF t \in checked THEN checked \ {t} ELSE checked \cup {t},
              search_market, search_term, FALSE, FALSE)

\* the button is drawn only below a non-empty selection
LaunchAnalysis ==
    /\ selected_companies(selected_market, checked) # <<>>
    /\ Rerun("LaunchAnalysis", selected_market, checked, search_market,
             search_term, TRUE, FALSE)

SelectSearchMarket ==
    \E m \in ({SelectMarketOption} \cup Markets) \ {search_market} :
        Rerun("SelectSearchMarket", selected_market, checked, m, search_term,
              FALSE, FALSE)

EnterSearchTerm ==
    \E t \in ({""} \cup Terms) \ {search_term} :
        Rerun("EnterSearchTerm", selected_market, checked, search_market, t,
              FALSE, FALSE)

\* the button is disabled unless a market and a term are set
PressSearch ==
    /\ search_market # SelectMarketOption /\ search_term # ""
    /\ Rerun("PressSearch", selected_market, checked, search_market,
             search_term, FALSE, TRUE)

AppInit ==
    /\ now \in AppDates
    /\ FnIdle
    /\ AppStart
    /\ openai_client \in Clients
    /\ \E config \in KeyConfigs : secrets = config[1] /\ environ = config[2]
    /\ Startup

AppNext ==
    \/ SelectMarket
    \/ ToggleCompany
    \/ LaunchAnalysis
    \/ SelectSearchMarket
    \/ EnterSearchTerm
    \/ PressSearch

SpecApp == AppInit /\ [][AppNext]_vars

\* ------------------------------------------------------- actions of Spec

Idle == call = "none"

\* time passes between calls
Tick ==
    /\ Idle
    /\ \E d \in Later(now) : d # now /\ now' = d
    /\ at' = now'
    /\ UNCHANGED <<call, args, ret, raised, reqs, appvars>>

\* the caller takes the result
Return ==
    /\ ~Idle
    /\ call' = "none"
    /\ at' = now
    /\ args' = <<>>
    /\ ret' = <<>>
    /\ raised' = FALSE
    /\ reqs' = 0
    /\ UNCHANGED <<now, appvars>>

CallFiscalPeriod ==
    /\ Idle
    /\ call' = "get_current_fiscal_period"
    /\ args' = <<>>
    /\ ret' = get_current_fiscal_period(now)
    /\ raised' = FALSE
    /\ reqs' = 0
    /\ UNCHANGED <<now, at, appvars>>

CallValidate ==
    /\ Idle
    /\ \E data \in Records, ticker \in Tickers :
        /\ call' = "validate_financial_data"
        /\ args' = [data |-> data, ticker |-> ticker]
        /\ ret' = validate_financial_data(data, ticker, now)
    /\ raised' = FALSE
    /\ reqs' = 0
    /\ UNCHANGED <<now, at, appvars>>

\* two calls on records that agree on the scored fields, the second at a
\* later reading of the clock
CallValidateTwice ==
    /\ Idle
    /\ \E data1 \in Records, later \in Dates :
       \E data2 \in {[data1 EXCEPT !.employees = e] : e \in Employees} :
        /\ SameScoredFields(data1, data2)
        /\ DateLE(now, later)
        /\ call' = "validate_financial_data twice"
        /\ args' = [data1 |-> data1, ticker1 |-> "IBM",
                    data2 |-> data2, ticker2 |-> "NOW"]
        /\ ret' = [first |-> validate_financial_data(data1, "IBM", now),
                   second |-> validate_financial_data(data2, "NOW", later)]
        /\ now' = later
    /\ raised' = FALSE
    /\ reqs' = 0
    /\ UNCHANGED <<at, appvars>>

CallEnhanced ==
    /\ Idle
    /\ \E clock1 \in Later(now) : \E clock2 \in Later(clock1) :
       \E clock3 \in Later(clock2) :
       \E ticker \in Tickers, outcome \in MarketOutcomes :
        LET r == get_enhanced_financial_data(ticker, outcome,
                                             clock1, clock2, clock3)
        IN  /\ call' = "get_enhanced_financial_data"
            /\ args' = [ticker |-> ticker, outcome |-> outcome]
            /\ ret' = r.value
            /\ raised' = r.raised
            /\ reqs' = r.reqs
            /\ now' = IF outcome.kind = "ok" THEN clock3 ELSE clock2
    /\ UNCHANGED <<at, appvars>>

CallAnalyze ==
    /\ Idle
    /\ \E ticker \in Tickers, client \in Clients, outcome \in ChatOutcomes :
        LET r == analyze_with_ai([name |-> ticker, ticker |-> ticker],
                                 client, outcome)
        IN  /\ call' = "analyze_with_ai"
            /\ args' = [ticker |-> ticker, client |-> client,
                        outcome |-> outcome]
            /\ ret' = r.value
            /\ raised' = r.raised
            /\ reqs' = r.reqs
    /\ UNCHANGED <<now, at, appvars>>

CallIbmPerspective ==
    /\ Idle
    /\ \E ticker \in Tickers, market \in Markets, client \in Clients,
          outcome \in ChatOutcomes :
        LET r == generate_ibm_perspective([name |-> ticker, ticker |-> ticker],
                                          market, client, outcome)
        IN  /\ call' = "generate_ibm_perspective"
            /\ args' = [ticker |-> ticker, market |-> market,
                        client |-> client, outcome |-> outcome]
            /\ ret' = r.value
            /\ raised' = r.raised
            /\ reqs' = r.reqs
    /\ UNCHANGED <<now, at, appvars>>

CallSearch ==
    /\ Idle
    /\ \E market \in Markets, term \in Terms, client \in Clients,
          outcome \in ChatOutcomes :
        LET r == search_market_for_topic(market, term, Tickers, client, outcome)
        IN  /\ call' = "search_market_for_topic"
            /\ args' = [market |-> market, term |-> term,
                        client |-> client, outcome |-> outcome]
            /\ ret' = r.value
            /\ raised' = r.raised
            /\ reqs' = r.reqs
    /\ UNCHANGED <<now, at, appvars>>

\* the iterations that draw a base are all of them when revenue is None or
\* 0 and none otherwise; iterations 1..3 draw a variance
CallChart ==
    /\ Idle
    /\ \E financial_data \in ChartRecords :
       \E base \in [IF Truthy(financial_data.revenue) THEN {}
                    ELSE 0..(Bars - 1) -> BaseDraws],
          variance \in [1..(Bars - 1) -> VarianceDraws] :
        /\ call' = "create_modern_chart"
        /\ args' = [financial_data |-> financial_data, base |-> base,
                    variance |-> variance]
        /\ ret' = create_modern_chart(financial_data, base, variance)
    /\ raised' = FALSE
    /\ reqs' = 0
    /\ UNCHANGED <<now, at, appvars>>

\* results is an answer of the LLM or the placeholder of a failed search
CallDisplaySearch ==
    /\ Idle
    /\ \/ \E answer \in Answers :
            /\ args' = [sections |-> answer, results |-> answer_text(answer, 1)]
            /\ ret' = display_search_results_modern(answer_text(answer, 1))
       \/ \E e \in {ErrText(n) : n \in {0, 1}} :
            /\ args' = [sections |-> <<>>, results |-> placeholder(SearchPrefix, e)]
            /\ ret' = display_search_results_modern(placeholder(SearchPrefix, e))
    /\ call' = "display_search_results_modern"
    /\ raised' = FALSE
    /\ reqs' = 0
    /\ UNCHANGED <<now, at, appvars>>

CallTestEnv ==
    /\ Idle
    /\ \E api_key \in EnvKeys :
        /\ args' = [api_key |-> api_key]
        /\ ret' = test_env(api_key)
    /\ call' = "test_env"
    /\ raised' = FALSE
    /\ reqs' = 0
    /\ UNCHANGED <<now, at, appvars>>

\* the record shown is one get_enhanced_financial_data returned
CallDisplayMetrics ==
    /\ Idle
    /\ \E outcome \in MarketOutcomes :
       \E financial_data \in
              {get_enhanced_financial_data("IBM", outcome, now, now, now).value} :
       \E revenue_draw \in IF Truthy(financial_data.revenue)
                           THEN RevenueDraws ELSE {NoDraw},
          eps_draw \in IF Truthy(financial_data.eps)
                       THEN EpsDraws ELSE {NoDraw} :
        /\ args' = [financial_data |-> financial_data,
                    revenue_draw |-> revenue_draw, eps_draw |-> eps_draw]
        /\ ret' = display_financial_metrics_modern(financial_data,
                                                   revenue_draw, eps_draw)
    /\ call' = "display_financial_metrics_modern"
    /\ raised' = FALSE
    /\ reqs' = 0
    /\ UNCHANGED <<now, at, appvars>>

\* profile is what get_company_info's own lookup answers, outcome what the
\* lookup of get_enhanced_financial_data answers; the last read of the
\* clock, for last_refreshed, can come after midnight
CallCompanyInfo ==
    /\ Idle
    /\ \E last_refreshed \in Later(now) :
       \E ticker \in Tickers, profile \in ProfileOutcomes,
          outcome \in CompanyLookups :
        LET r == get_company_info(ticker, profile, outcome,
                                  now, now, now, last_refreshed)
        IN  /\ call' = "get_company_info"
            /\ args' = [ticker |-> ticker, profile |-> profile,
                        outcome |-> outcome]
            /\ ret' = r.value
            /\ raised' = r.raised
            /\ reqs' = r.reqs
            /\ now' = last_refreshed
    /\ UNCHANGED <<at, appvars>>

\* company_info is what get_company_info returned for the ticker
CallQuotes ==
    /\ Idle
    /\ \E ticker \in QuoteTickers, profile \in QuoteProfiles,
          outcome \in CompanyLookups :
        LET company_info == get_company_info(ticker, profile, outcome,
                                             now, now, now, now).value
        IN  /\ call' = "generate_validated_quotes"
            /\ args' = [company_info |-> company_info]
            /\ ret' = generate_validated_quotes(company_info)
    /\ raised' = FALSE
    /\ reqs' = 0
    /\ UNCHANGED <<now, at, appvars>>

FnInit ==
    /\ now \in Dates
    /\ FnIdle
    /\ AppStart
    /\ openai_client = "client"
    /\ secrets = PyAbsent
    /\ environ = PyStr(KeyText(KeyPrefix, MinKeyLen))
    /\ Startup

FnNext ==
    \/ Tick
    \/ Return
    \/ CallFiscalPeriod
    \/ CallValidate
    \/ CallValidateTwice
    \/ CallEnhanced
    \/ CallAnalyze
    \/ CallIbmPerspective
    \/ CallSearch
    \/ CallChart
    \/ CallDisplaySearch
    \/ CallTestEnv
    \/ CallDisplayMetrics
    \/ CallCompanyInfo
    \/ CallQuotes

Spec == FnInit /\ [][FnNext]_vars

\* ------------------------------------------------------------ properties

ValidateCall == call = "validate_financial_data"
TwiceCall == call = "validate_financial_data twice"
EnhancedCall == call = "get_enhanced_financial_data"
LookupFailed == EnhancedCall /\ args.outcome.kind = "raise"
LlmCall == call \in {"analyze_with_ai", "generate_ibm_perspective",
                     "search_market_for_topic"}
LlmFailed == LlmCall /\ (args.client = "None" \/ args.outcome.kind = "raise")

\* the calendar quarter ends of year y
QuarterEnds(y) == {Date(y, 3, 31), Date(y, 6, 30), Date(y, 9, 30),
                   Date(y, 12, 31)}

\* the latest quarter end that is not after d
LatestQuarterEnd(d) ==
    LET ends == {e \in QuarterEnds(d.year - 1) \cup QuarterEnds(d.year) :
                     DateLE(e, d)}
    IN  CHOOSE e \in ends : \A f \in ends : DateLE(f, e)

\* C1: for every current date get_current_fiscal_period returns the label,
\* the year and the end date of the latest calendar quarter whose end date
\* is not after the current date.
C1_MostRecentCompleted ==
    call = "get_current_fiscal_period" =>
        LET e == LatestQuarterEnd(at) IN
        ret = [quarter |-> "Q" \o ToString(e.month \div 3),
               year |-> e.year, end |-> e]

\* C2: every quality score, from validate_financial_data on any record and
\* from get_enhanced_financial_data (its failure path included), is an
\* integer between 0 and 100.
C2_ScoreRange ==
    /\ ValidateCall => ret.score \in 0..100
    /\ TwiceCall => ret.first.score \in 0..100 /\ ret.second.score \in 0..100
    /\ EnhancedCall => ret.validation.score \in 0..100

C2_Witness ==
    /\ ValidateCall
    /\ ret.score = 100

\* C3: in every validation record get_enhanced_financial_data returns, on
\* its success and its failure path, the level is "high" iff score >= 80,
\* "medium" iff 50 <= score < 80 and "low" iff score < 50.
C3_LevelFromScore ==
    EnhancedCall =>
        LET v == ret.validation IN
        /\ v.level \in {"high", "medium", "low"}
        /\ v.level = "high" <=> v.score >= 80
        /\ v.level = "medium" <=> (50 <= v.score /\ v.score < 80)
        /\ v.level = "low" <=> v.score < 50

C3_Witness ==
    /\ EnhancedCall
    /\ args.outcome.kind = "ok"
    /\ ret.validation.score = 80
    /\ ret.validation.level = "high"

\* the score as the claim states it; "present" is read as the code tests
\* it, a non-empty quarter and a non-zero fiscal year
ClaimedScore(data, clock) ==
    LET current == get_current_fiscal_period(clock).year IN
    (IF data.revenue # PyNone THEN 30 ELSE 0)
    + (IF data.eps # PyNone THEN 30 ELSE 0)
    + (IF data.market_cap # PyNone THEN 20 ELSE 0)
    + (IF Truthy(data.quarter) /\ Truthy(data.fiscal_year)
       THEN (IF data.fiscal_year.i = current THEN 20
             ELSE IF data.fiscal_year.i = current - 1 THEN 10 ELSE 0)
       ELSE 0)

\* C4: the score of validate_financial_data is 30 for revenue, 30 for eps,
\* 20 for market_cap, each when not None, plus, when quarter and
\* fiscal_year are present, 20 for the current fiscal year or 10 for the
\* year before it; no other field changes it.
C4_ScoreSum ==
    ValidateCall => ret.score = ClaimedScore(args.data, at)

C4_Witness ==
    /\ ValidateCall
    /\ args.data.employees # PyNone
    /\ args.data.fiscal_year.i = get_current_fiscal_period(at).year - 1
    /\ ret.score = 90

\* C5: when the market-data lookup raises, get_enhanced_financial_data
\* does not raise; its record has revenue, eps, market_cap, revenue_growth
\* and employees None, validation score 0, level "low", text "No Data",
\* one issue "API Error: " followed by the first 50 characters of the
\* exception text, an "error" key, and quarter, fiscal_year and
\* quarter_end_date from get_current_fiscal_period.
C5_FailureRecord ==
    LookupFailed =>
        LET e == args.outcome.text
            cut == IF Len(e) > 50 THEN 50 ELSE Len(e)
        IN  /\ ~raised
            /\ ret.revenue = PyNone /\ ret.eps = PyNone
            /\ ret.market_cap = PyNone /\ ret.revenue_growth = PyNone
            /\ ret.employees = PyNone
            /\ ret.validation.score = 0
            /\ ret.validation.level = "low"
            /\ ret.validation.text = "No Data"
            /\ Len(ret.validation.issues) = 1
            /\ ret.validation.issues[1] = "API Error: " \o SubSeq(e, 1, cut)
            /\ "error" \in DOMAIN ret
            /\ \E t \in Dates :
                /\ DateLE(at, t) /\ DateLE(t, now)
                /\ ret.quarter = PyStr(get_current_fiscal_period(t).quarter)
                /\ ret.fiscal_year = PyInt(get_current_fiscal_period(t).year)
                /\ ret.quarter_end_date = get_current_fiscal_period(t).end

C5_Witness ==
    /\ LookupFailed
    /\ Len(args.outcome.text) > 50
    /\ "error" \in DOMAIN ret

\* the except-branch prefix of each LLM wrapper
PrefixOf(f) ==
    IF f = "analyze_with_ai" THEN "Analysis temporarily unavailable: "
    ELSE IF f = "generate_ibm_perspective"
    THEN "IBM perspective analysis temporarily unavailable: "
    ELSE "Search temporarily unavailable. Error: "

\* C6: analyze_with_ai, generate_ibm_perspective and
\* search_market_for_topic never raise; on an exception (a None client
\* included) each returns its fixed prefix followed by at most the first
\* 100 characters of the exception text, and on success the message
\* content unchanged.
C6_LlmNeverRaises ==
    LlmCall =>
        /\ ~raised
        /\ LlmFailed =>
            LET e == IF args.client = "None" THEN NoneClientError
                     ELSE args.outcome.text
                cut == IF Len(e) > 100 THEN 100 ELSE Len(e)
            IN  ret = PrefixOf(call) \o SubSeq(e, 1, cut) \o "..."
        /\ ~LlmFailed => ret = args.outcome.content

C6_Witness ==
    /\ call = "analyze_with_ai"
    /\ args.client # "None"
    /\ args.outcome.kind = "raise"
    /\ Len(args.outcome.text) > 100
    /\ ~raised

\* C8: one invocation of get_enhanced_financial_data, analyze_with_ai,
\* generate_ibm_perspective or search_market_for_topic sends at most one
\* request, and after a failed request it returns its placeholder without
\* another request.
C8_NoRetry ==
    /\ (EnhancedCall \/ LlmCall) => reqs <= 1
    /\ LookupFailed =>
        /\ reqs = 1
        /\ ret.validation.text = "No Data"
    /\ (LlmCall /\ args.client # "None" /\ args.outcome.kind = "raise") =>
        /\ reqs = 1
        /\ SubSeq(ret, 1, Len(PrefixOf(call))) = PrefixOf(call)

C8_Witness ==
    /\ call = "search_market_for_topic"
    /\ args.client # "None"
    /\ args.outcome.kind = "raise"
    /\ reqs = 1

\* C9 as stated: two calls of validate_financial_data on records with equal
\* revenue, eps, market_cap, quarter and fiscal_year return equal score,
\* level, text and issues whatever the current date is at each call.
C9_PureOfFields ==
    (TwiceCall /\ SameScoredFields(args.data1, args.data2)) =>
        ret.first = ret.second

\* C9 amended: two calls on records with equal revenue, eps, market_cap,
\* quarter and fiscal_year return equal score, level, text and issues
\* provided get_current_fiscal_period returns the same year at both calls.
C9_PureGivenFiscalYear ==
    (/\ TwiceCall
     /\ SameScoredFields(args.data1, args.data2)
     /\ get_current_fiscal_period(at).year = get_current_fiscal_period(now).year)
    => ret.first = ret.second

C9_Witness ==
    /\ TwiceCall
    /\ at.month # now.month
    /\ get_current_fiscal_period(at).year = get_current_fiscal_period(now).year
    /\ args.data1.employees # args.data2.employees
    /\ Truthy(args.data1.quarter) /\ Truthy(args.data1.fiscal_year)
    /\ ret.first = ret.second

\* the number of companies held in the launched analysis
Launched == IF "companies" \in DOMAIN analysis_data
            THEN Len(analysis_data.companies) ELSE 0

\* C7 as stated: one rerun caused by one widget interaction sends at most
\* two requests to the external services, whatever the number of
\* companies in the launched analysis.
C7_AtMostTwoCalls == netCalls <= 2

\* C7 amended: one rerun sends at most four requests for each company held
\* in the launched analysis (two market-data lookups, two LLM completions)
\* and at most one more for a search.
C7_CallsPerCompany == netCalls <= 4 * Launched + 1

C7_Witness ==
    /\ Launched >= 2
    /\ event = "PressSearch"
    /\ netCalls = 4 * Launched + 1

\* a rerun, not caused by the search button, with a market and a term
\* selected for which a search has run
CachedSelection ==
    /\ event # "PressSearch"
    /\ search_market # SelectMarketOption
    /\ search_term # ""
    /\ <<search_market, search_term>> \in DOMAIN searched

\* C10 as stated: once a search for a (market, term) pair has run, every
\* later rerun with that market and term selected, other than one caused
\* by the search button, displays the cached string and sends no LLM
\* request.
C10_NoLlmRequest ==
    CachedSelection =>
        /\ shown = << searched[<<search_market, search_term>>] >>
        /\ llmReqs = 0

\* C10 amended: once a search for a (market, term) pair has run, every
\* later rerun with that market and term selected, other than one caused
\* by the search button, displays the string that search returned and
\* sends no search request; the launched analysis still sends its own
\* completions on every rerun.
C10_CachedSearchShown ==
    CachedSelection =>
        /\ shown = << searched[<<search_market, search_term>>] >>
        /\ searchReqs = 0

C10_Witness ==
    /\ event = "SelectSearchMarket"
    /\ Cardinality(DOMAIN searched) = 2
    /\ <<search_market, search_term>> \in DOMAIN searched
    /\ \E k \in DOMAIN searched :
           searched[k] # searched[<<search_market, search_term>>]
    /\ shown = << searched[<<search_market, search_term>>] >>
    /\ searchReqs = 0

\* ------------------------------------------------------------ session state

\* one step of a session keeps every cached search result unless the search
\* button caused it, and keeps the launched analysis unless the launch
\* button caused it
SessionStep ==
    /\ DOMAIN search_results \subseteq DOMAIN search_results'
    /\ search_results' # search_results => event' = "PressSearch"
    /\ analysis_data' # analysis_data => event' = "LaunchAnalysis"

\* C11: a session starts with search_results and analysis_data empty; an
\* entry of search_results is only added or overwritten by a search and
\* never removed; analysis_data only changes when Launch Analysis is
\* pressed.
C11_SessionState ==
    /\ (search_results = <<>> /\ analysis_data = <<>>)
    /\ [][SessionStep]_vars

\* a rerun caused by choosing another market, with two cached searches and a
\* launched analysis of the market chosen before
C11_Witness ==
    /\ event = "SelectMarket"
    /\ Cardinality(DOMAIN search_results) = 2
    /\ Launched >= 1
    /\ analysis_data.market # selected_market

\* ------------------------------------------------------------------- chart

ChartCall == call = "create_modern_chart"

\* C12: when financial_data['revenue'] is missing (None), every one of the
\* four bars is the fabricated value built from a random base in 800..2000;
\* when revenue is available (not None), the bar of the most recent quarter
\* equals the real revenue.
C12_RealOrFabricated ==
    ChartCall =>
        /\ args.financial_data.revenue = PyNone =>
               \A i \in 0..(Bars - 1) :
                   /\ args.base[i] \in BaseLow..BaseHigh
                   /\ ret.revenues[Bars - i] =
                          args.base[i]
                          * (IF i > 0 THEN args.variance[i] ELSE Hundredths)
                          * (Hundredths - i * DeclinePerQuarter)
        /\ args.financial_data.revenue # PyNone =>
               ret.revenues[Bars] =
                   args.financial_data.revenue.i * Hundredths * Hundredths

\* ------------------------------------------------------- search result cards

DisplaySearchCall == call = "display_search_results_modern"

\* the card field that shows the line with the given prefix
CardField(card, prefix) ==
    IF prefix = "COMPANY:" THEN card.company
    ELSE IF prefix = "EXECUTIVE:" THEN card.executive
    ELSE IF prefix = "QUOTE:" THEN card.quote
    ELSE IF prefix = "SOURCE:" THEN card.source
    ELSE card.relevance

\* C13: within each '---'-separated section the displayed company,
\* executive, quote, source and relevance are the texts of the lines
\* carrying the prefixes COMPANY:, EXECUTIVE:, QUOTE:, SOURCE: and
\* RELEVANCE:, whatever the order of the lines.
C13_FieldsByPrefix ==
    (DisplaySearchCall /\ ~ret.unavailable) =>
        /\ Len(ret.cards) = Len(args.sections)
        /\ \A k \in 1..Len(args.sections) :
           \A j \in 1..Len(args.sections[k]) :
               CardField(ret.cards[k], args.sections[k][j].prefix)
                   = args.sections[k][j].text

\* ------------------------------------------------------------- the API key

\* a non-empty string that starts with 'sk-' and has at least 50 characters
KeyAccepted(key) ==
    /\ key.t = "str"
    /\ key.s # ""
    /\ SubSeq(key.s, 1, Min(Len(KeyPrefix), Len(key.s))) = KeyPrefix
    /\ Len(key.s) >= MinKeyLen

\* C14: a run of the script gets past the key validation, where all the
\* code that calls an external API lies, only if the loaded key is
\* non-empty, starts with 'sk-' and has at least 50 characters, and stops
\* at startup otherwise; a secret that is present and non-empty is the
\* loaded key whatever the environment variable holds.
C14_KeyGate ==
    /\ stopped <=> ~KeyAccepted(openai_api_key)
    /\ (event # "start" \/ netCalls > 0) => ~stopped
    /\ (secrets # PyAbsent /\ Truthy(secrets)) => openai_api_key = secrets

\* a rerun that sent requests, in a deployment whose secret and environment
\* variable both hold an acceptable key
C14_Witness ==
    /\ event = "LaunchAnalysis"
    /\ netCalls > 0
    /\ KeyAccepted(secrets)
    /\ KeyAccepted(environ)
    /\ environ # secrets
    /\ openai_api_key = secrets

\* ------------------------------------------------------------- test_env.py

TestEnvCall == call = "test_env"

Printed(line) == \E k \in 1..Len(ret) : ret[k] = line

\* C15: test_env.py prints 'API Key is None - check your .env file' exactly
\* when OPENAI_API_KEY is not set, and otherwise prints the first 15
\* characters of the key and its length.
C15_NoneIffUnset ==
    TestEnvCall =>
        /\ Printed("API Key is None - check your .env file")
               <=> args.api_key = PyNone
        /\ args.api_key # PyNone =>
               /\ Printed("API Key starts with: "
                          \o SubSeq(args.api_key.s, 1,
                                    Min(ShownKeyLen, Len(args.api_key.s)))
                          \o "...")
               /\ Printed("API Key length: " \o ToString(Len(args.api_key.s)))

\* ----------------------------------------------------------- fiscal period

FiscalCall == call = "get_current_fiscal_period"

\* the period the comments of the function give for a date
CommentedPeriod(d) ==
    IF d.month \in 7..9
    THEN [quarter |-> "Q1", year |-> d.year, end |-> Date(d.year, 3, 31)]
    ELSE IF d.month \in 10..11
    THEN [quarter |-> "Q2", year |-> d.year, end |-> Date(d.year, 6, 30)]
    ELSE IF d.month = 12
    THEN [quarter |-> "Q3", year |-> d.year, end |-> Date(d.year, 9, 30)]
    ELSE [quarter |-> "Q4", year |-> d.year - 1,
          end |-> Date(d.year - 1, 12, 31)]

\* C16: get_current_fiscal_period returns Q1 of the current year in months
\* 7-9, Q2 of the current year in months 10-11, Q3 of the current year in
\* month 12 and Q4 of the previous year in months 1-6.
C16_CommentMapping == FiscalCall => ret = CommentedPeriod(at)

\* the last day of quarter q of year y
QuarterEnd(q, y) ==
    IF q = "Q1" THEN Date(y, 3, 31)
    ELSE IF q = "Q2" THEN Date(y, 6, 30)
    ELSE IF q = "Q3" THEN Date(y, 9, 30)
    ELSE Date(y, 12, 31)

\* C17: for every current date the triple get_current_fiscal_period returns
\* is consistent: the end date is the last day of the returned quarter in
\* the returned year, and it is strictly before the current date.
C17_TripleConsistent ==
    FiscalCall =>
        /\ ret.quarter \in {"Q1", "Q2", "Q3", "Q4"}
        /\ ret.end = QuarterEnd(ret.quarter, ret.year)
        /\ DateLT(ret.end, at)

\* the call on the first day of a year, one day after the end it returns
C17_Witness ==
    /\ FiscalCall
    /\ at.month = 1 /\ at.day = 1
    /\ ret.quarter = "Q4"
    /\ ret.end = Date(at.year - 1, 12, 31)

\* ------------------------------------------------- quality of a fresh record

LookupAnswered == EnhancedCall /\ args.outcome.kind = "ok"

\* C18: every record the success path of get_enhanced_financial_data
\* returns, whatever the clock does between the function's reads of it, has
\* quality level 'high' exactly when revenue and eps are both not None.
C18_HighIffRevenueEps ==
    LookupAnswered =>
        (ret.validation.level = "high"
            <=> (ret.revenue # PyNone /\ ret.eps # PyNone))

\* ------------------------------------------------------------------ issues

\* quarter and fiscal_year are present and the year is neither the current
\* fiscal year nor the one before
Outdated(data, clock) ==
    /\ Truthy(data.quarter) /\ Truthy(data.fiscal_year)
    /\ data.fiscal_year.i \notin
           {get_current_fiscal_period(clock).year - 1,
            get_current_fiscal_period(clock).year}

\* one issue for each missing field and one for an outdated year
ClaimedIssues(data, clock) ==
    (IF data.revenue = PyNone THEN <<"Missing revenue data">> ELSE <<>>)
    \o (IF data.eps = PyNone THEN <<"Missing EPS data">> ELSE <<>>)
    \o (IF data.market_cap = PyNone THEN <<"Missing market cap">> ELSE <<>>)
    \o (IF Outdated(data, clock)
        THEN <<"Data is from " \o ToString(data.fiscal_year.i)
               \o ", potentially outdated">>
        ELSE <<>>)

\* C19: validate_financial_data returns no issue exactly when revenue, eps
\* and market_cap are all not None and the fiscal year, when quarter and
\* fiscal_year are present, is the current fiscal year or the one before;
\* each missing field and an outdated year gives exactly one issue, in the
\* order revenue, EPS, market cap, outdated.
C19_Issues ==
    ValidateCall =>
        /\ ret.issues = ClaimedIssues(args.data, at)
        /\ ret.issues = <<>> <=>
               /\ args.data.revenue # PyNone
               /\ args.data.eps # PyNone
               /\ args.data.market_cap # PyNone
               /\ ~Outdated(args.data, at)

\* a record with nothing but a quarter and a year two years back
C19_Witness ==
    /\ ValidateCall
    /\ args.data.revenue = PyNone
    /\ Outdated(args.data, at)
    /\ Len(ret.issues) = 4

\* ------------------------------------------------------- metrics and issues

DisplayMetricsCall == call = "display_financial_metrics_modern"

Listed(issues, issue) == \E k \in 1..Len(issues) : issues[k] = issue

\* C20: for every financial record the Revenue metric shows 'Data
\* Unavailable' exactly when the validation issues contain 'Missing revenue
\* data', and the EPS metric shows 'Data Unavailable' exactly when they
\* contain 'Missing EPS data'.
C20_MetricsAgreeWithIssues ==
    DisplayMetricsCall =>
        /\ ret.revenue.value = "Data Unavailable"
               <=> Listed(args.financial_data.validation.issues,
                          "Missing revenue data")
        /\ ret.eps.value = "Data Unavailable"
               <=> Listed(args.financial_data.validation.issues,
                          "Missing EPS data")

\* ------------------------------------------------------------ company info

CompanyInfoCall == call = "get_company_info"

\* C21: get_company_info never raises, whatever the market-data API does;
\* it returns a record with name, ticker, sector, industry, description,
\* website, last_refreshed and a financial_data record holding a validation
\* with score, level, text and issues; when its lookup fails the name is
\* the ticker, the sector 'Technology', the industry 'Software' and an
\* 'error' key is present.
C21_CompanyInfoTotal ==
    CompanyInfoCall =>
        /\ ~raised
        /\ {"name", "ticker", "sector", "industry", "description",
            "website", "last_refreshed", "financial_data"}
               \subseteq DOMAIN ret
        /\ "validation" \in DOMAIN ret.financial_data
        /\ {"score", "level", "text", "issues"}
               \subseteq DOMAIN ret.financial_data.validation
        /\ args.profile.kind = "raise" =>
               /\ ret.name = PyStr(args.ticker)
               /\ ret.sector = PyStr("Technology")
               /\ ret.industry = PyStr("Software")
               /\ "error" \in DOMAIN ret

\* both lookups fail
C21_Witness ==
    /\ CompanyInfoCall
    /\ args.profile.kind = "raise"
    /\ args.outcome.kind = "raise"
    /\ ret.error = args.profile.text
    /\ "error" \in DOMAIN ret.financial_data

\* ------------------------------------------------------------ chart labels

\* the number n of a quarter 'Q<n>'
QuarterNumber(q) ==
    IF q = PyStr("Q1") THEN 1
    ELSE IF q = PyStr("Q2") THEN 2
    ELSE IF q = PyStr("Q3") THEN 3
    ELSE 4

\* calendar quarters counted from year 0: quarter n of year y is 4 y + n - 1
QuarterIndex(n, y) == 4 * y + n - 1

\* the label of the calendar quarter with index x
QuarterLabel(x) == "Q" \o ToString((x % 4) + 1) \o " " \o ToString(x \div 4)

\* C22: for every current quarter Q1..Q4 and year Y create_modern_chart
\* gives exactly four labels, oldest first, of four consecutive calendar
\* quarters that end with the current quarter 'Q<n> Y', and as many revenue
\* values as labels.
C22_ConsecutiveQuarters ==
    ChartCall =>
        /\ Len(ret.quarters) = 4
        /\ Len(ret.revenues) = Len(ret.quarters)
        /\ \A k \in 1..4 :
               ret.quarters[k] =
                   QuarterLabel(
                       QuarterIndex(QuarterNumber(args.financial_data.quarter),
                                    args.financial_data.fiscal_year.i)
                       - (4 - k))

\* a chart for Q2, whose two oldest labels lie in the year before
C22_Witness ==
    /\ ChartCall
    /\ args.financial_data.quarter = PyStr("Q2")
    /\ ret.quarters[1]
           = "Q3 " \o ToString(args.financial_data.fiscal_year.i - 1)
    /\ ret.quarters[3]
           = "Q1 " \o ToString(args.financial_data.fiscal_year.i)

\* --------------------------------------------------------- chart revenues

RealRevenueChart == ChartCall /\ Truthy(args.financial_data.revenue)

\* C23 as stated: when real revenue is available every one of the three
\* earlier quarters' values is not greater than the most recent quarter's
\* revenue, for every draw of the variance.
C23_EarlierNotGreater ==
    RealRevenueChart =>
        \A k \in 1..(Bars - 1) : ret.revenues[k] <= ret.revenues[Bars]

\* C23 amended: when real (positive) revenue R is available, the value i
\* quarters back lies between 0.95 and 1.05 times R (1 - 0.02 i), so it
\* stays under 1.03 R, and it is not greater than R whenever the variance
\* drawn for it is at most 1.0.
C23_DeclineWithinVariance ==
    RealRevenueChart =>
        \A i \in 1..(Bars - 1) :
            /\ ret.revenues[Bars - i]
                   >= args.financial_data.revenue.i * VarianceLow
                      * (Hundredths - i * DeclinePerQuarter)
            /\ ret.revenues[Bars - i]
                   <= args.financial_data.revenue.i * VarianceHigh
                      * (Hundredths - i * DeclinePerQuarter)
            /\ args.variance[i] <= Hundredths =>
                   ret.revenues[Bars - i] <= ret.revenues[Bars]

\* the quarter before the latest drawn 5% up: 1.05 * 0.98 of the revenue
C23_Witness ==
    /\ RealRevenueChart
    /\ args.variance[1] = VarianceHigh
    /\ args.variance[2] = VarianceLow
    /\ ret.revenues[Bars - 1] > ret.revenues[Bars]
    /\ ret.revenues[Bars - 2] < ret.revenues[Bars]

\* ------------------------------------------------------------------ quotes

QuotesCall == call = "generate_validated_quotes"

\* the names the claim gives a ticker
ClaimedNames(ticker) ==
    LET RealNames == ("IBM" :> <<"Arvind Krishna", "James Kavanaugh">>)
                     @@ ("CRM" :> <<"Marc Benioff", "Amy Weaver">>)
                     @@ ("ORCL" :> <<"Safra Catz", "Safra Catz">>)
                     @@ ("MSFT" :> <<"Satya Nadella", "Amy Hood">>)
                     @@ ("DDOG" :> <<"Olivier Pomel", "David Obstler">>)
                     @@ ("SNOW" :> <<"Frank Slootman", "Mike Scarpelli">>)
    IN  IF ticker \in DOMAIN RealNames THEN RealNames[ticker]
        ELSE <<ticker \o " CEO", ticker \o " CFO">>

\* C24: generate_validated_quotes always returns exactly three quotes, all
\* with the same period '<quarter> <fiscal_year>', the same date (the
\* quarter end) and data_quality equal to the financial data's validation
\* level; the first and third are attributed to the CEO and the second to
\* the CFO, using the table of real names for IBM, CRM, ORCL, MSFT, DDOG,
\* SNOW and '<ticker> CEO' / '<ticker> CFO' for every other ticker.
C24_ThreeQuotes ==
    QuotesCall =>
        LET fin == args.company_info.financial_data
            names == ClaimedNames(args.company_info.ticker)
        IN  /\ ~raised
            /\ Len(ret) = 3
            /\ \A k \in 1..3 :
                /\ ret[k].period
                       = fin.quarter.s \o " " \o ToString(fin.fiscal_year.i)
                /\ ret[k].date = ret[1].date
                /\ ret[k].date
                       = strftime(QuarterEnd(fin.quarter.s, fin.fiscal_year.i))
                /\ ret[k].data_quality = fin.validation.level
            /\ ret[1].executive = names[1] \o ", Chief Executive Officer"
            /\ ret[2].executive = names[2] \o ", Chief Financial Officer"
            /\ ret[3].executive = names[1] \o ", Chief Executive Officer"

\* a listed company with a complete record, quoted in the second half of
\* the year
C24_Witness ==
    /\ QuotesCall
    /\ args.company_info.ticker = "IBM"
    /\ ret[2].executive = "James Kavanaugh, Chief Financial Officer"
    /\ ret[1].data_quality = "high"
    /\ ret[3].date = "March 31, " \o ToString(FirstYear)
    /\ ret[3].period = "Q1 " \o ToString(FirstYear)

\* a company outside the table whose lookups both failed
C24_WitnessUnlisted ==
    /\ QuotesCall
    /\ args.company_info.ticker = "PLTR"
    /\ ret[1].executive = "PLTR CEO, Chief Executive Officer"
    /\ ret[2].executive = "PLTR CFO, Chief Financial Officer"
    /\ ret[2].data_quality = "low"
    /\ ret[2].citation_url = "https://investor.pltr.com/news-releases"

====
